---------------------------- MODULE Spec2Model ----------------------------
(***************************************************************************)
(* A model of src/src/main.rs: the grid-coupled flow/particle simulation   *)
(* ("Particle Man").  The program computes in f32; the model computes in   *)
(* IEEE-754 binary32 as well, so that rounding (ties, absorbed addends,    *)
(* stalled interpolation) is part of what is checked.                      *)
(*                                                                         *)
(* An f32 value is the pair <<m, e>> standing for m * 2^e, in canonical    *)
(* form: 2^23 <= |m| < 2^24 and e >= -149 (normal), or |m| < 2^23 and      *)
(* e = -149 (subnormal and zero).  Infinities, NaN and the sign of zero    *)
(* are not represented: no value of the model leaves the finite range.     *)
(***************************************************************************)
EXTENDS Integers, Sequences, FiniteSets, TLC

Pow2(k) == 2^k

Abs(n) == IF n < 0 THEN -n ELSE n

Sgn(n) == IF n < 0 THEN -1 ELSE 1

Max(a, b) == IF a >= b THEN a ELSE b

Min(a, b) == IF a <= b THEN a ELSE b

RECURSIVE BitLen(_)
BitLen(n) == IF n = 0 THEN 0 ELSE 1 + BitLen(n \div 2)

FZero == <<0, -149>>

(* Round-to-nearest, ties-to-even, of s * (X + f) * 2^e to binary32, where *)
(* 0 <= f < 1 and f > 0 exactly when sticky.  Callers pass sticky only     *)
(* with at least one bit of X to be dropped.                               *)
RoundPack(s, X, e, sticky) ==
  IF X = 0 THEN FZero
  ELSE LET L == BitLen(X)
           k == Max(L - 24, -149 - e)
       IN  IF k <= 0
           THEN LET j == Min(24 - L, e + 149) IN <<s * X * Pow2(j), e - j>>
           ELSE IF k >= L + 2 THEN FZero
           ELSE LET q == X \div Pow2(k)
                    r == X % Pow2(k)
                    half == Pow2(k - 1)
                    up == r > half \/ (r = half /\ (sticky \/ q % 2 = 1))
                    m == IF up THEN q + 1 ELSE q
                IN  IF m = 0 THEN FZero
                    ELSE IF m = Pow2(24) THEN <<s * Pow2(23), e + k + 1>>
                    ELSE <<s * m, e + k>>

(* `n as f32` for an integer |n| < 2^24 (exact). *)
FromInt(n) == RoundPack(Sgn(n), Abs(n), 0, FALSE)

FNeg(a) == <<-a[1], a[2]>>

FAbs(a) == <<Abs(a[1]), a[2]>>

(* a + b in f32.  Operands whose exponents differ by at most 5 are added   *)
(* exactly; otherwise the larger one carries three guard bits and the      *)
(* smaller one is shifted under them, its lost bits kept as the sticky bit.*)
FAdd(a, b) ==
  IF a[1] = 0 THEN b
  ELSE IF b[1] = 0 THEN a
  ELSE LET hi == IF a[2] >= b[2] THEN a ELSE b
           lo == IF a[2] >= b[2] THEN b ELSE a
           d  == hi[2] - lo[2]
       IN  IF d <= 5
           THEN LET S == hi[1] * Pow2(d) + lo[1]
                IN  RoundPack(Sgn(S), Abs(S), lo[2], FALSE)
           ELSE LET A    == Abs(hi[1]) * 8
                    sh   == d - 3
                    B    == Abs(lo[1])
                    Bq   == IF sh > 24 THEN 0 ELSE B \div Pow2(sh)
                    st   == IF sh > 24 THEN TRUE ELSE B % Pow2(sh) # 0
                    same == Sgn(hi[1]) = Sgn(lo[1])
                    X    == IF same THEN A + Bq
                            ELSE A - Bq - (IF st THEN 1 ELSE 0)
                IN  RoundPack(Sgn(hi[1]), X, hi[2] - 3, st)

FSub(a, b) == FAdd(a, FNeg(b))

(* a * b in f32: the 48-bit product of the significands from 12-bit limbs. *)
FMul(a, b) ==
  IF a[1] = 0 \/ b[1] = 0 THEN FZero
  ELSE LET x   == Abs(a[1])
           y   == Abs(b[1])
           x1  == x \div 4096
           x0  == x % 4096
           y1  == y \div 4096
           y0  == y % 4096
           mid == x1 * y0 + x0 * y1
           L0  == (mid % 4096) * 4096 + x0 * y0
           H   == x1 * y1 + (mid \div 4096) + (L0 \div Pow2(24))
           Lo  == L0 % Pow2(24)
           pl  == IF H = 0 THEN BitLen(Lo) ELSE 24 + BitLen(H)
           t   == Max(0, pl - 28)
           X   == IF H = 0 THEN Lo ELSE H * Pow2(24 - t) + (Lo \div Pow2(t))
           st  == Lo % Pow2(t) # 0
       IN  RoundPack(Sgn(a[1]) * Sgn(b[1]), X, a[2] + b[2] + t, st)

(* |a| with its significand shifted into [2^23, 2^24) (a # 0). *)
Norm(a) ==
  LET j == 24 - BitLen(Abs(a[1])) IN <<Abs(a[1]) * Pow2(j), a[2] - j>>

RECURSIVE DivBits(_, _, _, _)
DivBits(q, r, d, n) ==
  IF n = 0 THEN <<q, r>>
  ELSE IF 2 * r >= d THEN DivBits(2 * q + 1, 2 * r - d, d, n - 1)
       ELSE DivBits(2 * q, 2 * r, d, n - 1)

(* a / b in f32 (b # 0): restoring division to 26 quotient bits. *)
FDiv(a, b) ==
  IF a[1] = 0 THEN FZero
  ELSE LET na == Norm(a)
           nb == Norm(b)
           q0 == IF na[1] >= nb[1] THEN 1 ELSE 0
           r0 == IF na[1] >= nb[1] THEN na[1] - nb[1] ELSE na[1]
           qr == DivBits(q0, r0, nb[1], 26)
       IN  RoundPack(Sgn(a[1]) * Sgn(b[1]), qr[1], na[2] - nb[2] - 26, qr[2] # 0)

RECURSIVE SqrtBits(_, _, _, _)
SqrtBits(root, rem, m, i) ==
  IF i = 26 THEN <<root, rem>>
  ELSE LET pair  == IF i < 13 THEN (m \div Pow2(2 * (12 - i))) % 4 ELSE 0
           r2    == 4 * rem + pair
           trial == 4 * root + 1
       IN  IF r2 >= trial THEN SqrtBits(2 * root + 1, r2 - trial, m, i + 1)
           ELSE SqrtBits(2 * root, r2, m, i + 1)

(* sqrt(a) in f32 (a >= 0): the integer square root of m * 2^26, bit pairs *)
(* from the top, the remainder as the sticky bit.                          *)
FSqrt(a) ==
  IF a[1] <= 0 THEN FZero
  ELSE LET na == Norm(a)
           ev == na[2] % 2 = 0
           m  == IF ev THEN na[1] ELSE 2 * na[1]
           e  == IF ev THEN na[2] ELSE na[2] - 1
           rr == SqrtBits(0, 0, m, 0)
       IN  RoundPack(1, rr[1], (e \div 2) - 13, rr[2] # 0)

FLt(a, b) ==
  IF a[1] < 0 /\ b[1] >= 0 THEN TRUE
  ELSE IF a[1] >= 0 /\ b[1] < 0 THEN FALSE
  ELSE IF a[1] >= 0 THEN a[2] < b[2] \/ (a[2] = b[2] /\ a[1] < b[1])
  ELSE a[2] > b[2] \/ (a[2] = b[2] /\ a[1] < b[1])

FLe(a, b) == ~FLt(b, a)

FGt(a, b) == FLt(b, a)

FGe(a, b) == ~FLt(a, b)

(* `a.floor() as usize`: the floor of a, the cast saturating at 0. *)
FloorToUsize(a) ==
  IF a[1] <= 0 THEN 0
  ELSE IF a[2] >= 0 THEN a[1] * Pow2(a[2])
  ELSE IF -a[2] > 24 THEN 0
  ELSE a[1] \div Pow2(-a[2])

(***************************************************************************)
(* Constants of the program.                                               *)
(***************************************************************************)
WIDTH == 640

HEIGHT == 360

CELLS_X == 20

CELLS_Y == 12

(* init_world: (0..8) particles. *)
NUM_PARTICLES == 8

FWIDTH == FromInt(WIDTH)

FHEIGHT == FromInt(HEIGHT)

(* The f32 literals 0.1 and 0.03, and std::f32::consts::PI. *)
F0_1 == <<13421773, -27>>

F0_03 == <<16106127, -29>>

FPI == <<13176795, -22>>

FOne == FromInt(1)

Point2(x, y) == [x |-> x, y |-> y]

Vec2(x, y) == [x |-> x, y |-> y]

(* `a.ceil()` for |a| < 2^24. *)
FCeil(a) ==
  IF a[1] > 0
  THEN LET n == FloorToUsize(a) IN IF FromInt(n) = a THEN a ELSE FromInt(n + 1)
  ELSE FNeg(FromInt(FloorToUsize(FNeg(a))))

(* lerp stepping past the target: the fraction is added to one. *)
lerp_overshoots(start, target, fraction) ==
  FAdd(start, FMul(FSub(target, start), FAdd(FOne, fraction)))

lerp(start, target, fraction) ==
  FAdd(start, FMul(FSub(target, start), fraction))

(***************************************************************************)
(* f32::cos and f32::sin on the angles the Turtle takes: the headings the  *)
(* Boat reaches by at most four turns of 0.1, and the five turn_right      *)
(* angles Boat::render adds to each.  The values are those of the libm the *)
(* program is built with: the correctly rounded binary32 cosine and sine,  *)
(* but for sin(2.9415927), which it returns one unit in the last place     *)
(* above (13332471 * 2^-26; the exact sine is 13332470.4876 * 2^-26).      *)
(***************************************************************************)
CosTable ==
  (<<-13421773, -25>> :> <<15452839, -24>>)
  @@ (<<-10066330, -25>> :> <<16027887, -24>>)
  @@ (<<-13421774, -26>> :> <<16442789, -24>>)
  @@ (<<-13421773, -26>> :> <<16442789, -24>>)
  @@ (<<-13421773, -27>> :> <<16693400, -24>>)
  @@ (<<0, -149>> :> <<8388608, -23>>)
  @@ (<<13421773, -27>> :> <<16693400, -24>>)
  @@ (<<13421773, -26>> :> <<16442789, -24>>)
  @@ (<<13421774, -26>> :> <<16442789, -24>>)
  @@ (<<10066330, -25>> :> <<16027887, -24>>)
  @@ (<<13421773, -25>> :> <<15452839, -24>>)
  @@ (<<9302941, -22>> :> <<-10115875, -24>>)
  @@ (<<9722372, -22>> :> <<-11401557, -24>>)
  @@ (<<10141802, -22>> :> <<-12573315, -24>>)
  @@ (<<10561233, -22>> :> <<-13619448, -24>>)
  @@ (<<10980663, -22>> :> <<-14529497, -24>>)
  @@ (<<11400093, -22>> :> <<-15294372, -24>>)
  @@ (<<11499074, -22>> :> <<-15452841, -24>>)
  @@ (<<11819524, -22>> :> <<-15906433, -24>>)
  @@ (<<11918504, -22>> :> <<-16027887, -24>>)
  @@ (<<12238954, -22>> :> <<-16359561, -24>>)
  @@ (<<12337934, -22>> :> <<-16442789, -24>>)
  @@ (<<12658385, -22>> :> <<-16649230, -24>>)
  @@ (<<12757366, -22>> :> <<-16693401, -24>>)
  @@ (<<13176796, -22>> :> <<-8388608, -23>>)
  @@ (<<13596226, -22>> :> <<-16693399, -24>>)
  @@ (<<14015656, -22>> :> <<-16442788, -24>>)
  @@ (<<14435086, -22>> :> <<-16027886, -24>>)
  @@ (<<14854518, -22>> :> <<-15452836, -24>>)
  @@ (<<9043736, -21>> :> <<-13066699, -25>>)
  @@ (<<9253451, -21>> :> <<-9916003, -25>>)
  @@ (<<9463166, -21>> :> <<-13332460, -26>>)
  @@ (<<9672882, -21>> :> <<-13399336, -27>>)
  @@ (<<9882597, -21>> :> <<8598393, -44>>)
  @@ (<<10092312, -21>> :> <<13399467, -27>>)
  @@ (<<10302027, -21>> :> <<13332493, -26>>)
  @@ (<<10511742, -21>> :> <<9916019, -25>>)
  @@ (<<10721458, -21>> :> <<13066729, -25>>)
  @@ (<<12337935, -21>> :> <<15452843, -24>>)
  @@ (<<12547650, -21>> :> <<16027889, -24>>)
  @@ (<<12757365, -21>> :> <<16442790, -24>>)
  @@ (<<12967081, -21>> :> <<16693401, -24>>)
  @@ (<<13176796, -21>> :> <<8388608, -23>>)
  @@ (<<13386511, -21>> :> <<16693399, -24>>)
  @@ (<<13436001, -21>> :> <<16649228, -24>>)
  @@ (<<13596226, -21>> :> <<16442787, -24>>)
  @@ (<<13645716, -21>> :> <<16359559, -24>>)
  @@ (<<13805941, -21>> :> <<16027885, -24>>)
  @@ (<<13855431, -21>> :> <<15906430, -24>>)
  @@ (<<14015657, -21>> :> <<15452834, -24>>)
  @@ (<<14065147, -21>> :> <<15294367, -24>>)
  @@ (<<14274862, -21>> :> <<14529491, -24>>)
  @@ (<<14484577, -21>> :> <<13619440, -24>>)
  @@ (<<14694292, -21>> :> <<12573310, -24>>)
  @@ (<<14904007, -21>> :> <<11401551, -24>>)
  @@ (<<15113723, -21>> :> <<10115865, -24>>)

SinTable ==
  (<<-13421773, -25>> :> <<-13066711, -25>>)
  @@ (<<-10066330, -25>> :> <<-9916013, -25>>)
  @@ (<<-13421774, -26>> :> <<-13332474, -26>>)
  @@ (<<-13421773, -26>> :> <<-13332473, -26>>)
  @@ (<<-13421773, -27>> :> <<-13399415, -27>>)
  @@ (<<0, -149>> :> <<0, -149>>)
  @@ (<<13421773, -27>> :> <<13399415, -27>>)
  @@ (<<13421773, -26>> :> <<13332473, -26>>)
  @@ (<<13421774, -26>> :> <<13332474, -26>>)
  @@ (<<10066330, -25>> :> <<9916013, -25>>)
  @@ (<<13421773, -25>> :> <<13066711, -25>>)
  @@ (<<9302941, -22>> :> <<13384471, -24>>)
  @@ (<<9722372, -22>> :> <<12307700, -24>>)
  @@ (<<10141802, -22>> :> <<11107958, -24>>)
  @@ (<<10561233, -22>> :> <<9797225, -24>>)
  @@ (<<10980663, -22>> :> <<16777210, -25>>)
  @@ (<<11400093, -22>> :> <<13792339, -25>>)
  @@ (<<11499074, -22>> :> <<13066704, -25>>)
  @@ (<<11819524, -22>> :> <<10669651, -25>>)
  @@ (<<11918504, -22>> :> <<9916008, -25>>)
  @@ (<<12238954, -22>> :> <<14880726, -26>>)
  @@ (<<12337934, -22>> :> <<13332471, -26>>)
  @@ (<<12658385, -22>> :> <<16546903, -27>>)
  @@ (<<12757366, -22>> :> <<13399358, -27>>)
  @@ (<<13176796, -22>> :> <<-11464524, -45>>)
  @@ (<<13596226, -22>> :> <<-13399445, -27>>)
  @@ (<<14015656, -22>> :> <<-13332482, -26>>)
  @@ (<<14435086, -22>> :> <<-9916014, -25>>)
  @@ (<<14854518, -22>> :> <<-13066724, -25>>)
  @@ (<<9043736, -21>> :> <<-15452842, -24>>)
  @@ (<<9253451, -21>> :> <<-16027888, -24>>)
  @@ (<<9463166, -21>> :> <<-16442789, -24>>)
  @@ (<<9672882, -21>> :> <<-16693401, -24>>)
  @@ (<<9882597, -21>> :> <<-8388608, -23>>)
  @@ (<<10092312, -21>> :> <<-16693399, -24>>)
  @@ (<<10302027, -21>> :> <<-16442788, -24>>)
  @@ (<<10511742, -21>> :> <<-16027886, -24>>)
  @@ (<<10721458, -21>> :> <<-15452835, -24>>)
  @@ (<<12337935, -21>> :> <<-13066694, -25>>)
  @@ (<<12547650, -21>> :> <<-9915998, -25>>)
  @@ (<<12757365, -21>> :> <<-13332449, -26>>)
  @@ (<<12967081, -21>> :> <<-13399315, -27>>)
  @@ (<<13176796, -21>> :> <<11464524, -44>>)
  @@ (<<13386511, -21>> :> <<13399489, -27>>)
  @@ (<<13436001, -21>> :> <<16547001, -27>>)
  @@ (<<13596226, -21>> :> <<13332503, -26>>)
  @@ (<<13645716, -21>> :> <<14880759, -26>>)
  @@ (<<13805941, -21>> :> <<9916024, -25>>)
  @@ (<<13855431, -21>> :> <<10669667, -25>>)
  @@ (<<14015657, -21>> :> <<13066734, -25>>)
  @@ (<<14065147, -21>> :> <<13792361, -25>>)
  @@ (<<14274862, -21>> :> <<8388616, -24>>)
  @@ (<<14484577, -21>> :> <<9797235, -24>>)
  @@ (<<14694292, -21>> :> <<11107964, -24>>)
  @@ (<<14904007, -21>> :> <<12307706, -24>>)
  @@ (<<15113723, -21>> :> <<13384478, -24>>)

Cos(a) == CosTable[a]

Sin(a) == SinTable[a]

(***************************************************************************)
(* Turtle                                                                  *)
(***************************************************************************)
new_turtle == [loc |-> Point2(FZero, FZero), direction |-> FZero, pen_down |-> FALSE]

rad_to_deg(rads) == FDiv(FMul(rads, FPI), FromInt(180))

forward(t, amount) ==
  [t EXCEPT !.loc = Point2(FAdd(t.loc.x, FMul(amount, Cos(t.direction))),
                           FAdd(t.loc.y, FMul(amount, Sin(t.direction))))]

turn_right(t, degrees) ==
  [t EXCEPT !.direction = FAdd(t.direction, rad_to_deg(degrees))]

pen_down(t) == [t EXCEPT !.pen_down = TRUE]

pen_up(t) == [t EXCEPT !.pen_down = FALSE]

move_to(t, x, y) == [t EXCEPT !.loc = Point2(x, y)]

(***************************************************************************)
(* Boat                                                                    *)
(***************************************************************************)
new_boat(x, y, vx, vy) ==
  [loc |-> Point2(x, y), vel |-> Vec2(vx, vy), health |-> FOne, t |-> new_turtle]

(* Boat::render: the outline is traced by the Turtle, whose heading is     *)
(* saved first and restored last.                                          *)
(* Boat::render leaving the Boat where the turtle ends its outline. *)
boat_render_moves_boat(b) ==
  LET dir_save == b.t.direction
      t1  == forward(move_to(pen_up(b.t), b.loc.x, b.loc.y), FromInt(20))
      t2  == forward(turn_right(pen_down(t1), FromInt(150)), FromInt(15))
      t3  == forward(turn_right(t2, FromInt(30)), FromInt(20))
      t4  == forward(turn_right(t3, FromInt(90)), FromInt(15))
      t5  == forward(turn_right(t4, FromInt(90)), FromInt(20))
      t6  == forward(turn_right(t5, FromInt(30)), FromInt(15))
  IN  [b EXCEPT !.t = [t6 EXCEPT !.direction = dir_save], !.loc = t6.loc]

boat_render(b) ==
  LET dir_save == b.t.direction
      t1  == forward(move_to(pen_up(b.t), b.loc.x, b.loc.y), FromInt(20))
      t2  == forward(turn_right(pen_down(t1), FromInt(150)), FromInt(15))
      t3  == forward(turn_right(t2, FromInt(30)), FromInt(20))
      t4  == forward(turn_right(t3, FromInt(90)), FromInt(15))
      t5  == forward(turn_right(t4, FromInt(90)), FromInt(20))
      t6  == forward(turn_right(t5, FromInt(30)), FromInt(15))
  IN  [b EXCEPT !.t = [t6 EXCEPT !.direction = dir_save]]

thrust(b) ==
  LET thrust_mag == FAdd(F0_1, FSqrt(FAdd(FMul(b.vel.x, b.vel.x), FMul(b.vel.y, b.vel.y))))
      thrust_x   == FMul(Cos(b.t.direction), thrust_mag)
      thrust_y   == FMul(Sin(b.t.direction), thrust_mag)
  IN  [b EXCEPT !.vel = Vec2(lerp(b.vel.x, thrust_x, F0_1), lerp(b.vel.y, thrust_y, F0_1))]

turn(b, degrees) == [b EXCEPT !.t.direction = FAdd(b.t.direction, degrees)]

(***************************************************************************)
(* Particle                                                                *)
(***************************************************************************)
new_particle_at(x, y, vx, vy) == [position |-> Point2(x, y), velocity |-> Vec2(vx, vy)]

(* while c < 0. { c += extent } *)
RECURSIVE WrapBelow(_, _)
WrapBelow(c, extent) ==
  IF FLt(c, FZero) THEN WrapBelow(FAdd(c, extent), extent) ELSE c

(* while c >= extent { c -= extent } *)
RECURSIVE WrapAtOrAbove(_, _)
WrapAtOrAbove(c, extent) ==
  IF FGe(c, extent) THEN WrapAtOrAbove(FSub(c, extent), extent) ELSE c

(* while c > extent { c -= extent } *)
RECURSIVE WrapAbove(_, _)
WrapAbove(c, extent) ==
  IF FGt(c, extent) THEN WrapAbove(FSub(c, extent), extent) ELSE c

(* update_pos with the two loops of each axis in the other order. *)
update_pos_upper_loop_first(p) ==
  LET x0 == FAdd(p.position.x, p.velocity.x)
      y0 == FAdd(p.position.y, p.velocity.y)
  IN  [p EXCEPT !.position = Point2(WrapBelow(WrapAtOrAbove(x0, FWIDTH), FWIDTH),
                                    WrapBelow(WrapAtOrAbove(y0, FHEIGHT), FHEIGHT))]

update_pos(p) ==
  LET x0 == FAdd(p.position.x, p.velocity.x)
      y0 == FAdd(p.position.y, p.velocity.y)
  IN  [p EXCEPT !.position = Point2(WrapAtOrAbove(WrapBelow(x0, FWIDTH), FWIDTH),
                                    WrapAtOrAbove(WrapBelow(y0, FHEIGHT), FHEIGHT))]

(* get_cell_index with the rows of the grid CELLS_Y cells long. *)
get_cell_index_row_of_cells_y(p) ==
  LET cell_width  == FCeil(FDiv(FromInt(WIDTH), FromInt(CELLS_X)))
      cell_height == FCeil(FDiv(FromInt(HEIGHT), FromInt(CELLS_Y)))
      particle_coord_x == FloorToUsize(FDiv(p.position.x, cell_width))
      particle_coord_y == FloorToUsize(FDiv(p.position.y, cell_height))
      ret == particle_coord_y * CELLS_Y + particle_coord_x
  IN  IF ret >= CELLS_X * CELLS_Y THEN CELLS_X * CELLS_Y - 1 ELSE ret

get_cell_index(p) ==
  LET cell_width  == FCeil(FDiv(FromInt(WIDTH), FromInt(CELLS_X)))
      cell_height == FCeil(FDiv(FromInt(HEIGHT), FromInt(CELLS_Y)))
      particle_coord_x == FloorToUsize(FDiv(p.position.x, cell_width))
      particle_coord_y == FloorToUsize(FDiv(p.position.y, cell_height))
      ret == particle_coord_y * CELLS_X + particle_coord_x
  IN  IF ret >= CELLS_X * CELLS_Y THEN CELLS_X * CELLS_Y - 1 ELSE ret

update_velocity_from_cell(p, cell) ==
  [p EXCEPT !.velocity = Vec2(lerp(p.velocity.x, cell.flow_v.x, F0_03),
                              lerp(p.velocity.y, cell.flow_v.y, F0_03))]

(***************************************************************************)
(* FluidCell                                                               *)
(***************************************************************************)
FluidCell(flow) == [flow_v |-> flow, flow_updates |-> Vec2(FZero, FZero), particle_count |-> 0]

(* update_flow keeping only the last velocity instead of the sum. *)
update_flow_overwrites(cell, particle) ==
  [cell EXCEPT !.flow_updates = Vec2(particle.velocity.x, particle.velocity.y),
               !.particle_count = cell.particle_count + 1]

(* update_flow that also blends the velocity into the committed flow. *)
update_flow_blends_field(cell, particle) ==
  [cell EXCEPT !.flow_updates = Vec2(FAdd(cell.flow_updates.x, particle.velocity.x),
                                     FAdd(cell.flow_updates.y, particle.velocity.y)),
               !.particle_count = cell.particle_count + 1,
               !.flow_v = Vec2(lerp(cell.flow_v.x, particle.velocity.x, F0_1),
                               lerp(cell.flow_v.y, particle.velocity.y, F0_1))]

update_flow(cell, particle) ==
  [cell EXCEPT !.flow_updates = Vec2(FAdd(cell.flow_updates.x, particle.velocity.x),
                                     FAdd(cell.flow_updates.y, particle.velocity.y)),
               !.particle_count = cell.particle_count + 1]

(* apply_flow_update that lets the flow of a cell without contributions    *)
(* decay towards zero.                                                     *)
apply_flow_update_decays_empty(cell) ==
  IF cell.particle_count > 0
  THEN [flow_v |-> Vec2(lerp(cell.flow_v.x,
                             FDiv(cell.flow_updates.x, FromInt(cell.particle_count)), F0_1),
                        lerp(cell.flow_v.y,
                             FDiv(cell.flow_updates.y, FromInt(cell.particle_count)), F0_1)),
        flow_updates |-> Vec2(FZero, FZero),
        particle_count |-> 0]
  ELSE [cell EXCEPT !.flow_v = Vec2(lerp(cell.flow_v.x, FZero, F0_1),
                                    lerp(cell.flow_v.y, FZero, F0_1))]

(* apply_flow_update blending towards the sum of the velocities, not their *)
(* average.                                                                *)
apply_flow_update_of_sum(cell) ==
  IF cell.particle_count > 0
  THEN [flow_v |-> Vec2(lerp(cell.flow_v.x, cell.flow_updates.x, F0_1),
                        lerp(cell.flow_v.y, cell.flow_updates.y, F0_1)),
        flow_updates |-> Vec2(FZero, FZero),
        particle_count |-> 0]
  ELSE cell

(* apply_flow_update without the reset of the accumulators. *)
apply_flow_update_keeps_accumulators(cell) ==
  IF cell.particle_count > 0
  THEN [cell EXCEPT !.flow_v =
          Vec2(lerp(cell.flow_v.x,
                    FDiv(cell.flow_updates.x, FromInt(cell.particle_count)), F0_1),
               lerp(cell.flow_v.y,
                    FDiv(cell.flow_updates.y, FromInt(cell.particle_count)), F0_1))]
  ELSE cell

apply_flow_update(cell) ==
  IF cell.particle_count > 0
  THEN [flow_v |-> Vec2(lerp(cell.flow_v.x,
                             FDiv(cell.flow_updates.x, FromInt(cell.particle_count)), F0_1),
                        lerp(cell.flow_v.y,
                             FDiv(cell.flow_updates.y, FromInt(cell.particle_count)), F0_1)),
        flow_updates |-> Vec2(FZero, FZero),
        particle_count |-> 0]
  ELSE cell

(***************************************************************************)
(* The systems of the workload, as functions of the storages they borrow.  *)
(***************************************************************************)
CellIxs == 0 .. (CELLS_X * CELLS_Y - 1)

(* move_particle that also spawns a particle at the origin. *)
move_particle_spawns(ps) ==
  Append([i \in DOMAIN ps |-> update_pos(ps[i])], new_particle_at(FZero, FZero, FZero, FZero))

move_particle(ps) == [i \in DOMAIN ps |-> update_pos(ps[i])]

RECURSIVE FeedFrom(_, _, _)
FeedFrom(all_cells, ps, i) ==
  IF i > Len(ps) THEN all_cells
  ELSE LET cell_index == get_cell_index(ps[i])
       IN  FeedFrom([all_cells EXCEPT ![cell_index] = update_flow(@, ps[i])], ps, i + 1)

(* update_grid_flow that misses the first particle of the storage. *)
update_grid_flow_skips_first(ps, all_cells) == FeedFrom(all_cells, ps, 2)

update_grid_flow(ps, all_cells) == FeedFrom(all_cells, ps, 1)

apply_grid_updates(all_cells) ==
  [cell_ix \in DOMAIN all_cells |-> apply_flow_update(all_cells[cell_ix])]

update_particles_vectors(ps, all_cells) ==
  [i \in DOMAIN ps |-> update_velocity_from_cell(ps[i], all_cells[get_cell_index(ps[i])])]

update_player(b) ==
  LET x0 == FAdd(b.loc.x, b.vel.x)
      y0 == FAdd(b.loc.y, b.vel.y)
      moved == [b EXCEPT !.loc = Point2(WrapAbove(WrapBelow(x0, FWIDTH), FWIDTH),
                                        WrapAbove(WrapBelow(y0, FHEIGHT), FHEIGHT))]
  IN  boat_render(moved)

(* handle_key_presses, up to the Escape test: keys is the state of the     *)
(* keyboard in this frame.                                                 *)
toggle_mode(mode, keys) ==
  IF keys.d THEN (IF mode = "Debug" THEN "Default" ELSE "Debug") ELSE mode

(* steer with the D key suppressing the turn and the thrust. *)
steer_unless_d(b, keys) ==
  IF keys.d THEN b
  ELSE LET turned == IF keys.left THEN turn(b, FNeg(F0_1))
                     ELSE IF keys.right THEN turn(b, F0_1)
                     ELSE b
       IN  IF keys.up THEN thrust(turned) ELSE turned

steer(b, keys) ==
  LET turned == IF keys.left THEN turn(b, FNeg(F0_1))
                ELSE IF keys.right THEN turn(b, F0_1)
                ELSE b
  IN  IF keys.up THEN thrust(turned) ELSE turned

(***************************************************************************)
(* Bounds of the model and the values its nondeterminism draws from.       *)
(***************************************************************************)
MaxFrames == 3

MaxUnitSteps == 3

MaxCommits == 2

(* n / 2^k, exact in f32 for |n| < 2^24 *)
Dyadic(n, k) == RoundPack(Sgn(n), Abs(n), -k, FALSE)

(* The headings within four turns of 0.1 from 0, the domain of the trig tables. *)
Headings ==
  {<<-13421773, -25>>, <<-10066330, -25>>, <<-13421774, -26>>, <<-13421773, -26>>,
   <<-13421773, -27>>, <<0, -149>>, <<13421773, -27>>, <<13421773, -26>>,
   <<13421774, -26>>, <<10066330, -25>>, <<13421773, -25>>}

Keys ==
  {k \in [d : BOOLEAN, left : BOOLEAN, right : BOOLEAN, up : BOOLEAN,
          space : BOOLEAN, escape : BOOLEAN] : TRUE}

(* What new_particle can draw for the eight particles: positions in        *)
(* [0, WIDTH) x [0, HEIGHT), velocities in [-1, 1) x [-1, 1).              *)
ParticleDraws ==
  { << new_particle_at(FromInt(1), FromInt(1), Dyadic(1, 1), Dyadic(1, 2)),
       new_particle_at(FromInt(5), FromInt(7), Dyadic(-3, 2), Dyadic(1, 1)),
       new_particle_at(FromInt(10), FromInt(20), Dyadic(1, 2), Dyadic(-1, 1)),
       new_particle_at(Dyadic(1279, 1), Dyadic(719, 1), Dyadic(3, 2), Dyadic(3, 2)),
       new_particle_at(Dyadic(1, 2), Dyadic(1, 3), Dyadic(-1, 1), Dyadic(-1, 2)),
       new_particle_at(FromInt(320), FromInt(180), FZero, FZero),
       new_particle_at(Dyadic(63, 1), Dyadic(59, 1), Dyadic(3, 2), Dyadic(3, 2)),
       new_particle_at(FromInt(100), FromInt(200), FromInt(-1), Dyadic(16777215, 24)) >>,
     << new_particle_at(FZero, FZero, Dyadic(-1, 30), Dyadic(-1, 30)),
        new_particle_at(Dyadic(10485759, 14), Dyadic(11796479, 15), Dyadic(1, 23), Dyadic(1, 23)),
        new_particle_at(FromInt(32), FromInt(30), Dyadic(-1, 23), Dyadic(-1, 23)),
        new_particle_at(FromInt(33), FromInt(31), Dyadic(16777215, 24), Dyadic(1, 23)),
        new_particle_at(FromInt(34), FromInt(32), Dyadic(16777215, 24), Dyadic(3, 23)),
        new_particle_at(FromInt(35), FromInt(33), Dyadic(3, 23), Dyadic(16777215, 24)),
        new_particle_at(FromInt(36), FromInt(34), Dyadic(-1, 1), Dyadic(-1, 1)),
        new_particle_at(Dyadic(1279, 1), FromInt(90), Dyadic(1, 1), FromInt(-1)) >> }

(* What new_cells can draw for the flow of each cell: values in [-1, 1). *)
FlowDraws ==
  { [ix \in CellIxs |-> Vec2(Dyadic(1, 1), Dyadic(-1, 2))],
    [ix \in CellIxs |-> IF ix % 3 = 0 THEN Vec2(Dyadic(-3, 2), Dyadic(16777215, 24))
                        ELSE IF ix % 3 = 1 THEN Vec2(FZero, Dyadic(1, 2))
                        ELSE Vec2(FromInt(-1), Dyadic(-1, 23))] }

new_cells(flows) == [ix \in CellIxs |-> FluidCell(flows[ix])]

(***************************************************************************)
(* The state.                                                              *)
(*   particles   the Particle storage, in iteration order                  *)
(*   all_cells   Cells.all_cells, indexed from 0                           *)
(*   player      the Boat                                                  *)
(*   dragger     the ParticleDragger                                       *)
(*   game_mode   GameModeInfo.game_mode                                    *)
(*   is_started, exiting   the locals of main                              *)
(*   ran         the systems that have run in the current run of the       *)
(*               workload, in order (in the unit specifications: the       *)
(*               operations applied so far)                                *)
(*   frames      completed runs of the workload                            *)
(*   exited      process::exit was called                                  *)
(*   fed         unit specifications: the particles fed since the last     *)
(*               commit                                                    *)
(*   input       what the last step read from the mouse and the keyboard   *)
(*               (NoInput when it read neither)                            *)
(*   outcome     what run_default returned to the loop of main and the     *)
(*               loop has not handled yet: "Ok" or "GameOver"              *)
(***************************************************************************)
VARIABLES particles, all_cells, player, dragger, game_mode,
          is_started, exiting, ran, frames, exited, fed, input, outcome

vars == <<particles, all_cells, player, dragger, game_mode,
          is_started, exiting, ran, frames, exited, fed, input, outcome>>

NoKeys == [d |-> FALSE, left |-> FALSE, right |-> FALSE, up |-> FALSE,
           space |-> FALSE, escape |-> FALSE]

NoInput == [mouse_left |-> FALSE, keys |-> NoKeys]

world == <<particles, all_cells, player, dragger, game_mode>>

(* The workload with the commit added after the system that reads the field. *)
Workload_commit_after_read ==
  << "move_particle", "update_grid_flow", "update_player", "render",
     "update_particles_vectors", "apply_grid_updates", "handle_key_presses",
     "clean_up", "draw_world_grid" >>

(* The systems of Workload "Game loop", in the order they were added. *)
Workload ==
  << "move_particle", "update_grid_flow", "update_player", "render",
     "apply_grid_updates", "update_particles_vectors", "handle_key_presses",
     "clean_up", "draw_world_grid" >>

Range(f) == {f[i] : i \in DOMAIN f}

NextSystem == IF Len(ran) < Len(Workload) THEN Workload[Len(ran) + 1] ELSE "none"

(* init_world, with the draws of the random number generator as arguments. *)
init_world(ps, flows) ==
  /\ particles = ps
  /\ all_cells = new_cells(flows)
  /\ dragger = [point_x |-> FZero, point_y |-> FZero]
  /\ game_mode = "Default"
  /\ player = new_boat(FDiv(FromInt(WIDTH), FromInt(2)), FDiv(FromInt(HEIGHT), FromInt(2)),
                       FZero, FZero)

Init ==
  /\ \E ps \in ParticleDraws, flows \in FlowDraws : init_world(ps, flows)
  /\ is_started = FALSE
  /\ exiting = FALSE
  /\ ran = <<>>
  /\ frames = 0
  /\ exited = FALSE
  /\ fed = {}
  /\ input = NoInput
  /\ outcome = "Ok"

(* WaitForClick with the quit key honoured on the waiting screen. *)
WaitForClick_escape_quits ==
  /\ ~exited /\ ~is_started
  /\ \E mouse_left \in BOOLEAN, keys \in Keys :
       /\ input' = [mouse_left |-> mouse_left, keys |-> keys]
       /\ IF keys.escape
          THEN exited' = TRUE /\ UNCHANGED is_started
          ELSE IF mouse_left
               THEN IF exiting
                    THEN exited' = TRUE /\ UNCHANGED is_started
                    ELSE is_started' = TRUE /\ UNCHANGED exited
               ELSE UNCHANGED <<is_started, exited>>
  /\ UNCHANGED <<world, exiting, ran, frames, fed, outcome>>

(* One iteration of the loop of main with is_started false: only          *)
(* is_mouse_button_pressed(MouseButton::Left) is read; keys is the state   *)
(* of the keyboard meanwhile, which nothing reads.                         *)
WaitForClick ==
  /\ ~exited /\ ~is_started
  /\ \E mouse_left \in BOOLEAN, keys \in Keys :
       /\ input' = [mouse_left |-> mouse_left, keys |-> keys]
       /\ IF mouse_left
          THEN IF exiting
               THEN exited' = TRUE /\ UNCHANGED is_started
               ELSE is_started' = TRUE /\ UNCHANGED exited
          ELSE UNCHANGED <<is_started, exited>>
  /\ UNCHANGED <<world, exiting, ran, frames, fed, outcome>>

(* A system of the workload runs: run_default runs them one after another. *)
Runs(system) ==
  /\ ~exited /\ is_started
  /\ frames < MaxFrames
  /\ NextSystem = system
  /\ ran' = Append(ran, system)
  /\ UNCHANGED <<is_started, exiting, frames, fed, outcome>>

MoveParticle ==
  /\ Runs("move_particle")
  /\ particles' = move_particle(particles)
  /\ input' = NoInput
  /\ UNCHANGED <<all_cells, player, dragger, game_mode, exited>>

UpdateGridFlow ==
  /\ Runs("update_grid_flow")
  /\ all_cells' = update_grid_flow(particles, all_cells)
  /\ input' = NoInput
  /\ UNCHANGED <<particles, player, dragger, game_mode, exited>>

UpdatePlayer ==
  /\ Runs("update_player")
  /\ player' = update_player(player)
  /\ input' = NoInput
  /\ UNCHANGED <<particles, all_cells, dragger, game_mode, exited>>

(* render draws the particles and, in Debug mode, the cells. *)
Render ==
  /\ Runs("render")
  /\ input' = NoInput
  /\ UNCHANGED <<world, exited>>

ApplyGridUpdates ==
  /\ Runs("apply_grid_updates")
  /\ all_cells' = apply_grid_updates(all_cells)
  /\ input' = NoInput
  /\ UNCHANGED <<particles, player, dragger, game_mode, exited>>

UpdateParticlesVectors ==
  /\ Runs("update_particles_vectors")
  /\ particles' = update_particles_vectors(particles, all_cells)
  /\ input' = NoInput
  /\ UNCHANGED <<all_cells, player, dragger, game_mode, exited>>

HandleKeyPresses ==
  /\ Runs("handle_key_presses")
  /\ \E keys \in Keys :
       /\ keys.left => FAdd(player.t.direction, FNeg(F0_1)) \in Headings
       /\ (~keys.left /\ keys.right) => FAdd(player.t.direction, F0_1) \in Headings
       /\ game_mode' = toggle_mode(game_mode, keys)
       /\ player' = steer(player, keys)
       /\ exited' = keys.escape
       /\ input' = [mouse_left |-> FALSE, keys |-> keys]
  /\ UNCHANGED <<particles, all_cells, dragger>>

CleanUp ==
  /\ Runs("clean_up")
  /\ input' = NoInput
  /\ UNCHANGED <<world, exited>>

(* draw_world_grid draws the grid lines in Debug mode. *)
DrawWorldGrid ==
  /\ Runs("draw_world_grid")
  /\ input' = NoInput
  /\ UNCHANGED <<world, exited>>

(* run_default has returned Ok(()): no system returns Err, the `if let     *)
(* Err(Some(err))` arm is not taken, and the loop awaits the next frame.   *)
NextFrame ==
  /\ ~exited /\ is_started
  /\ NextSystem = "none"
  /\ outcome = "Ok"
  /\ ran' = <<>>
  /\ frames' = frames + 1
  /\ input' = NoInput
  /\ UNCHANGED <<world, is_started, exiting, exited, fed, outcome>>

Next ==
  \/ WaitForClick
  \/ MoveParticle
  \/ UpdateGridFlow
  \/ UpdatePlayer
  \/ Render
  \/ ApplyGridUpdates
  \/ UpdateParticlesVectors
  \/ HandleKeyPresses
  \/ CleanUp
  \/ DrawWorldGrid
  \/ NextFrame

Spec == Init /\ [][Next]_vars

(***************************************************************************)
(* SpecMotion: update_pos, update_player and get_cell_index on their own.  *)
(* One particle and the Boat start from the same position, anywhere in the *)
(* domain, with the same velocity, of any size; the systems that move      *)
(* them and the systems that index the grid are applied in any order.      *)
(***************************************************************************)
(* <<coordinate, velocity>> along x: the edges of the domain and of cells, *)
(* velocities of either sign, below the resolution of the coordinate, and  *)
(* of more than one extent.                                                *)
MotionX ==
  { <<FZero, FZero>>,
    <<FZero, Dyadic(-1, 30)>>,
    <<FZero, Dyadic(-5123, 2)>>,
    <<Dyadic(10485759, 14), Dyadic(1, 23)>>,
    <<Dyadic(10485759, 14), FromInt(1300)>>,
    <<Dyadic(2559, 2), Dyadic(8388610, 25)>>,
    <<Dyadic(1279, 1), Dyadic(1, 1)>>,
    <<Dyadic(16777215, 19), Dyadic(1, 20)>>,
    <<FromInt(320), FromInt(640)>>,
    <<Dyadic(9961471, 14), Dyadic(-3, 2)>> }

MotionY ==
  { <<FZero, FZero>>,
    <<FZero, Dyadic(-1, 30)>>,
    <<Dyadic(11796479, 15), Dyadic(1, 23)>>,
    <<Dyadic(719, 1), Dyadic(1, 1)>>,
    <<Dyadic(15728639, 19), FZero>>,
    <<Dyadic(15728639, 16), Dyadic(1, 2)>>,
    <<Dyadic(10813439, 15), FromInt(-725)>>,
    <<FromInt(180), FromInt(1080)>> }

InitMotion ==
  /\ \E cx \in MotionX, cy \in MotionY :
       /\ particles = << new_particle_at(cx[1], cy[1], cx[2], cy[2]) >>
       /\ player = new_boat(cx[1], cy[1], cx[2], cy[2])
  /\ all_cells = new_cells([ix \in CellIxs |-> Vec2(Dyadic(1, 1), Dyadic(-1, 2))])
  /\ dragger = [point_x |-> FZero, point_y |-> FZero]
  /\ game_mode = "Default"
  /\ is_started = TRUE
  /\ exiting = FALSE
  /\ ran = <<>>
  /\ frames = 0
  /\ exited = FALSE
  /\ fed = {}
  /\ input = NoInput
  /\ outcome = "Ok"

Applies(operation) ==
  /\ Len(ran) < MaxUnitSteps
  /\ ran' = Append(ran, operation)
  /\ UNCHANGED <<dragger, game_mode, is_started, exiting, frames, exited, fed,
                 input, outcome>>

UnitMoveParticle ==
  /\ Applies("move_particle")
  /\ particles' = move_particle(particles)
  /\ UNCHANGED <<all_cells, player>>

UnitUpdatePlayer ==
  /\ Applies("update_player")
  /\ player' = update_player(player)
  /\ UNCHANGED <<particles, all_cells>>

UnitUpdateGridFlow ==
  /\ Applies("update_grid_flow")
  /\ all_cells' = update_grid_flow(particles, all_cells)
  /\ UNCHANGED <<particles, player>>

UnitUpdateParticlesVectors ==
  /\ Applies("update_particles_vectors")
  /\ particles' = update_particles_vectors(particles, all_cells)
  /\ UNCHANGED <<all_cells, player>>

NextMotion ==
  \/ UnitMoveParticle
  \/ UnitUpdatePlayer
  \/ UnitUpdateGridFlow
  \/ UnitUpdateParticlesVectors

SpecMotion == InitMotion /\ [][NextMotion]_vars

(***************************************************************************)
(* SpecCell: update_flow and apply_flow_update on their own.  A pool of    *)
(* particles is fed to the grid one particle at a time, in any order, and  *)
(* the grid is committed once every particle has been fed, as the workload *)
(* does; frames counts the commits and ran records them.                   *)
(***************************************************************************)
(* Ten particles of velocity (1, 0) in one cell; four particles in one     *)
(* cell whose velocities do not all add up exactly in f32; three particles *)
(* in two cells.                                                           *)
Pools ==
  { [i \in 1..10 |-> new_particle_at(FromInt(1), FromInt(1), FOne, FZero)],
    << new_particle_at(FromInt(1), FromInt(1), Dyadic(16777214, 24), Dyadic(16777214, 24)),
       new_particle_at(FromInt(2), FromInt(2), Dyadic(16777214, 24), Dyadic(16777214, 24)),
       new_particle_at(FromInt(3), FromInt(3), Dyadic(3, 23), Dyadic(3, 23)),
       new_particle_at(FromInt(4), FromInt(4), Dyadic(-1, 1), Dyadic(-1, 1)) >>,
    << new_particle_at(FromInt(1), FromInt(1), Dyadic(1, 1), Dyadic(1, 2)),
       new_particle_at(FromInt(5), FromInt(7), Dyadic(-3, 2), Dyadic(1, 1)),
       new_particle_at(FromInt(33), FromInt(31), Dyadic(1, 2), Dyadic(-1, 1)) >> }

(* The flow every cell is seeded with: away from the samples, and one f32  *)
(* step (x) and no step (y) away from the sample (1, 0).                   *)
SeedFlows == { Vec2(Dyadic(1, 1), Dyadic(-1, 2)), Vec2(Dyadic(16777214, 24), FZero) }

InitCell ==
  /\ particles \in Pools
  /\ \E flow \in SeedFlows : all_cells = new_cells([ix \in CellIxs |-> flow])
  /\ player = new_boat(FromInt(320), FromInt(180), FZero, FZero)
  /\ dragger = [point_x |-> FZero, point_y |-> FZero]
  /\ game_mode = "Default"
  /\ is_started = TRUE
  /\ exiting = FALSE
  /\ ran = <<>>
  /\ frames = 0
  /\ exited = FALSE
  /\ fed = {}
  /\ input = NoInput
  /\ outcome = "Ok"

UnitFeedOne ==
  /\ \E i \in DOMAIN particles \ fed :
       /\ all_cells' = [all_cells EXCEPT ![get_cell_index(particles[i])] =
                                            update_flow(@, particles[i])]
       /\ fed' = fed \cup {i}
  /\ UNCHANGED <<particles, player, dragger, game_mode, is_started, exiting,
                 ran, frames, exited, input, outcome>>

UnitCommit ==
  /\ frames < MaxCommits
  /\ fed = DOMAIN particles
  /\ all_cells' = apply_grid_updates(all_cells)
  /\ fed' = {}
  /\ frames' = frames + 1
  /\ ran' = Append(ran, "apply_grid_updates")
  /\ UNCHANGED <<particles, player, dragger, game_mode, is_started, exiting, exited,
                 input, outcome>>

NextCell == UnitFeedOne \/ UnitCommit

SpecCell == InitCell /\ [][NextCell]_vars

(***************************************************************************)
(* SpecWrap: Particle::update_pos statement by statement, on one particle, *)
(* from the positions and velocities of SpecMotion.  ran lists the         *)
(* statements left behind: the addition, then each of the four while loops *)
(* once its condition has been found false; frames counts the loop bodies  *)
(* executed.  The Boat starts where the particle does and no statement of  *)
(* update_pos touches it: player.loc is the position before the call.      *)
(***************************************************************************)
MaxIterations == 8

InitWrap ==
  /\ \E cx \in MotionX, cy \in MotionY :
       /\ particles = << new_particle_at(cx[1], cy[1], cx[2], cy[2]) >>
       /\ player = new_boat(cx[1], cy[1], cx[2], cy[2])
  /\ all_cells = new_cells([ix \in CellIxs |-> Vec2(Dyadic(1, 1), Dyadic(-1, 2))])
  /\ dragger = [point_x |-> FZero, point_y |-> FZero]
  /\ game_mode = "Default"
  /\ is_started = TRUE
  /\ exiting = FALSE
  /\ ran = <<>>
  /\ frames = 0
  /\ exited = FALSE
  /\ fed = {}
  /\ input = NoInput
  /\ outcome = "Ok"

(* One statement of update_pos assigns `position` to the particle. *)
Positions(position) ==
  /\ particles' = << [particles[1] EXCEPT !.position = position] >>
  /\ UNCHANGED <<all_cells, player, dragger, game_mode, is_started, exiting,
                 exited, fed, input, outcome>>

(* self.position = self.position + self.velocity, both axes *)
WrapAdd ==
  /\ ran = <<>>
  /\ Positions(Point2(FAdd(particles[1].position.x, particles[1].velocity.x),
                      FAdd(particles[1].position.y, particles[1].velocity.y)))
  /\ ran' = <<"add">>
  /\ UNCHANGED frames

(* One evaluation of `while test { body }`: the body when the test holds,  *)
(* else the exit from the loop.                                            *)
WhileStep(loop, test, body) ==
  IF test
  THEN /\ frames < MaxIterations
       /\ Positions(body)
       /\ frames' = frames + 1
       /\ UNCHANGED ran
  ELSE /\ ran' = Append(ran, loop)
       /\ UNCHANGED <<world, is_started, exiting, frames, exited, fed, input, outcome>>

(* The position of the particle that update_pos is working on. *)
at == particles[1].position

(* while self.position.x < 0. { self.position.x += WIDTH as f32; } *)
WhileXBelow ==
  /\ ran = <<"add">>
  /\ WhileStep("x_below", FLt(at.x, FZero), Point2(FAdd(at.x, FWIDTH), at.y))

(* The second loop of x as an `if`: one subtraction at most. *)
WhileXAtOrAbove_once ==
  /\ ran = <<"add", "x_below">>
  /\ ran' = Append(ran, "x_at_or_above")
  /\ IF FGe(at.x, FWIDTH)
     THEN /\ frames < MaxIterations
          /\ Positions(Point2(FSub(at.x, FWIDTH), at.y))
          /\ frames' = frames + 1
     ELSE UNCHANGED <<world, is_started, exiting, frames, exited, fed, input, outcome>>

(* while self.position.x >= (WIDTH as f32) { self.position.x -= WIDTH as f32; } *)
WhileXAtOrAbove ==
  /\ ran = <<"add", "x_below">>
  /\ WhileStep("x_at_or_above", FGe(at.x, FWIDTH), Point2(FSub(at.x, FWIDTH), at.y))

(* while self.position.y < 0. { self.position.y += HEIGHT as f32; } *)
WhileYBelow ==
  /\ ran = <<"add", "x_below", "x_at_or_above">>
  /\ WhileStep("y_below", FLt(at.y, FZero), Point2(at.x, FAdd(at.y, FHEIGHT)))

(* while self.position.y >= HEIGHT as f32 { self.position.y -= HEIGHT as f32; } *)
WhileYAtOrAbove ==
  /\ ran = <<"add", "x_below", "x_at_or_above", "y_below">>
  /\ WhileStep("y_at_or_above", FGe(at.y, FHEIGHT), Point2(at.x, FSub(at.y, FHEIGHT)))

NextWrap ==
  \/ WrapAdd
  \/ WhileXBelow
  \/ WhileXAtOrAbove
  \/ WhileYBelow
  \/ WhileYAtOrAbove

SpecWrap == InitWrap /\ [][NextWrap]_vars

(***************************************************************************)
(* Properties.                                                             *)
(***************************************************************************)
(* The particle_count of all cells together. *)
TotalCount(cells) ==
  Cardinality(UNION { {<<ix, k>> : k \in 1 .. cells[ix].particle_count} : ix \in DOMAIN cells })

NoPending(cell) ==
  cell.particle_count = 0 /\ cell.flow_updates = Vec2(FZero, FZero)

(* In this step the workload runs `system`. *)
StepOf(system) == NextSystem = system /\ ran' = Append(ran, system)

InDomain(pos) ==
  /\ FLe(FZero, pos.x) /\ FLt(pos.x, FWIDTH)
  /\ FLe(FZero, pos.y) /\ FLt(pos.y, FHEIGHT)

(* The cell of index ix, as a rectangle of the domain, holds pos. *)
CellContains(ix, pos) ==
  LET cx == ix % CELLS_X
      cy == ix \div CELLS_X
      w  == WIDTH \div CELLS_X
      h  == HEIGHT \div CELLS_Y
  IN  /\ FLe(FromInt(w * cx), pos.x) /\ FLt(pos.x, FromInt(w * (cx + 1)))
      /\ FLe(FromInt(h * cy), pos.y) /\ FLt(pos.y, FromInt(h * (cy + 1)))

(* C1: in every frame of a running session, every particle has been moved *)
(* before any particle is accumulated into a cell, every particle has been *)
(* accumulated before any cell is committed, and every cell has been       *)
(* committed before any particle reads a flow.                             *)
C1_PipelineOrder ==
  [][ /\ (\E ix \in CellIxs :
            all_cells'[ix].particle_count > all_cells[ix].particle_count)
         => "move_particle" \in Range(ran)
      /\ StepOf("update_grid_flow") => "move_particle" \in Range(ran)
      /\ StepOf("apply_grid_updates")
         => /\ "update_grid_flow" \in Range(ran)
            /\ TotalCount(all_cells) = Len(particles)
      /\ StepOf("update_particles_vectors")
         => /\ "apply_grid_updates" \in Range(ran)
            /\ \A ix \in CellIxs : NoPending(all_cells[ix])
    ]_vars

(* A second frame has run all its systems. *)
C1_Witness == ran = Workload /\ frames >= 1

(* C2: once update_pos has run on a particle, from any position of the     *)
(* domain and with any velocity, its position is in [0, 640) x [0, 360).   *)
C2_ParticleInDomain ==
  "move_particle" \in Range(ran)
    => \A i \in DOMAIN particles : InDomain(particles[i].position)

(* A particle at x = 0 with a velocity of -2^-30 has been moved: the sum   *)
(* rounds up to 640 in the first loop and the second loop takes it to 0.   *)
C2_Witness ==
  /\ ran = << "move_particle" >>
  /\ particles[1].velocity.x = Dyadic(-1, 30)
  /\ particles[1].position.x = FZero

(* C3: once update_player has run, from any position of the domain and     *)
(* with any velocity, the Boat is in [0, 640) x [0, 360).                  *)
C3_BoatInDomain ==
  "update_player" \in Range(ran) => InDomain(player.loc)

(* C4: for a position of the domain, get_cell_index is the row-major       *)
(* index of the cell that holds it, within the grid; (0, 0) has index 0    *)
(* and the last position below (640, 360) has index 239.                   *)
C4_CellIndex ==
  \A i \in DOMAIN particles :
    InDomain(particles[i].position)
      => LET pos == particles[i].position
             ix  == get_cell_index(particles[i])
         IN  /\ ix \in 0 .. (CELLS_X * CELLS_Y - 1)
             /\ ix \in DOMAIN all_cells
             /\ CellContains(ix, pos)
             /\ pos = Point2(FZero, FZero) => ix = 0
             /\ pos = Point2(Dyadic(10485759, 14), Dyadic(11796479, 15))
                  => ix = CELLS_X * CELLS_Y - 1

(* The particle just below the upper corner has been accumulated into the  *)
(* last cell.                                                              *)
C4_Witness ==
  /\ ran = << "update_grid_flow" >>
  /\ particles[1].position = Point2(Dyadic(10485759, 14), Dyadic(11796479, 15))
  /\ all_cells[CELLS_X * CELLS_Y - 1].particle_count = 1

(* C5: once apply_grid_updates has run in a frame, and at every frame      *)
(* boundary, every cell has particle_count = 0 and flow_updates = (0, 0).  *)
C5_AccumulatorsCleared ==
  (ran = <<>> \/ "apply_grid_updates" \in Range(ran))
    => \A ix \in CellIxs : NoPending(all_cells[ix])

(* The commit of a second frame is done: cell 0 has been fed and committed *)
(* and cell 200 never has.                                                 *)
C5_Witness ==
  /\ frames >= 1
  /\ "apply_grid_updates" \in Range(ran)
  /\ all_cells[0].flow_v # all_cells[3].flow_v
  /\ all_cells[200].flow_v = all_cells[203].flow_v

(* The step commits the grid (in SpecCell frames counts the commits). *)
Commits == frames' = frames + 1

(* v is between a and b, the ends included / excluded. *)
Between(a, v, b) ==
  (FLe(a, v) /\ FLe(v, b)) \/ (FLe(b, v) /\ FLe(v, a))

StrictlyBetween(a, v, b) ==
  (FLt(a, v) /\ FLt(v, b)) \/ (FLt(b, v) /\ FLt(v, a))

(* The distance from a to b, as an f32. *)
Gap(a, b) == FAbs(FSub(a, b))

(* a and b are equal up to the rounding of at most ten f32 additions of    *)
(* values of magnitude at most 1: within 2^-16.                            *)
Near(a, b) == a = b \/ FLe(Gap(a, b), Dyadic(1, 16))

NearVec(a, b) == Near(a.x, b.x) /\ Near(a.y, b.y)

(* flow_updates / particle_count of a cell with contributions. *)
Sample(cell) ==
  Vec2(FDiv(cell.flow_updates.x, FromInt(cell.particle_count)),
       FDiv(cell.flow_updates.y, FromInt(cell.particle_count)))

(* The particles fed into cell ix since the last commit. *)
FedInto(ix) == {i \in fed : get_cell_index(particles[i]) = ix}

(* The grid with the particles of fd fed in the order of their index into  *)
(* cells whose accumulators are zero.                                      *)
RECURSIVE FeedInOrder(_, _, _, _)
FeedInOrder(cells, ps, fd, i) ==
  IF i > Len(ps) THEN cells
  ELSE IF i \in fd
       THEN FeedInOrder([cells EXCEPT ![get_cell_index(ps[i])] = update_flow(@, ps[i])],
                        ps, fd, i + 1)
       ELSE FeedInOrder(cells, ps, fd, i + 1)

InIndexOrder(cells, ps, fd) ==
  FeedInOrder([ix \in DOMAIN cells |-> FluidCell(cells[ix].flow_v)], ps, fd, 1)

(* C6: a commit leaves the flow_v of every cell that received no           *)
(* contribution in the frame as it was, frame after frame.                 *)
C6_EmptyCommitKeepsFlow ==
  [][ StepOf("apply_grid_updates")
        => \A ix \in CellIxs :
             all_cells[ix].particle_count = 0
               => all_cells'[ix].flow_v = all_cells[ix].flow_v
    ]_vars

(* Three commits are done: cell 105, where no particle has been, has the   *)
(* flow it was seeded with, and cell 0 has not.                            *)
C6_Witness ==
  /\ frames >= 2
  /\ "apply_grid_updates" \in Range(ran)
  /\ all_cells[105].flow_v = Vec2(Dyadic(1, 1), Dyadic(-1, 2))
  /\ all_cells[0].flow_v # Vec2(Dyadic(1, 1), Dyadic(-1, 2))

(* C7, as stated: the commit of a cell with n >= 1 contributions sets      *)
(* flow_v to old + ((v1 + ... + vn) / n - old) * 0.1, the sum being that   *)
(* of the velocities fed (the same in every order); the flow moves by      *)
(* exactly a tenth of the gap to the sample, ten times the move being the  *)
(* gap, and a gap that is not 0 shrinks at every commit.                   *)
C7_ExactTenth ==
  [][ Commits
        => \E inorder \in {InIndexOrder(all_cells, particles, fed)} :
               \A ix \in CellIxs :
                 all_cells[ix].particle_count >= 1
                   => LET cell   == all_cells[ix]
                          old    == cell.flow_v
                          new    == all_cells'[ix].flow_v
                          sample == Sample(cell)
                      IN  /\ cell.particle_count = Cardinality(FedInto(ix))
                          /\ cell.flow_updates = inorder[ix].flow_updates
                          /\ FMul(FromInt(10), FSub(new.x, old.x)) = FSub(sample.x, old.x)
                          /\ FMul(FromInt(10), FSub(new.y, old.y)) = FSub(sample.y, old.y)
                          /\ old.x # sample.x
                               => FLt(Gap(sample.x, new.x), Gap(sample.x, old.x))
                          /\ old.y # sample.y
                               => FLt(Gap(sample.y, new.y), Gap(sample.y, old.y))
    ]_vars

(* C7, amended: the commit of a cell with n >= 1 contributions sets flow_v *)
(* to old + (sum / n - old) * 0.1 in each component, each operation        *)
(* rounded to f32, where n is the number of particles fed into the cell    *)
(* and sum is the f32 sum of their velocities in the order fed (within     *)
(* 2^-16 of the sum in any other order); ten times the move is within      *)
(* 2^-20 of the gap to sum / n, the gap never grows, and it shrinks as     *)
(* long as it is at least 2^-20; ten particles of velocity (1, 0) have the *)
(* sample (1, 0).                                                          *)
C7_CommitBlend ==
  [][ Commits
        => \E inorder \in {InIndexOrder(all_cells, particles, fed)} :
               \A ix \in CellIxs :
                 all_cells[ix].particle_count >= 1
                   => LET cell   == all_cells[ix]
                          old    == cell.flow_v
                          new    == all_cells'[ix].flow_v
                          sample == Sample(cell)
                      IN  /\ cell.particle_count = Cardinality(FedInto(ix))
                          /\ NearVec(cell.flow_updates, inorder[ix].flow_updates)
                          /\ new.x = FAdd(old.x, FMul(FSub(sample.x, old.x), F0_1))
                          /\ new.y = FAdd(old.y, FMul(FSub(sample.y, old.y), F0_1))
                          /\ FLe(Gap(FMul(FromInt(10), FSub(new.x, old.x)),
                                     FSub(sample.x, old.x)), Dyadic(1, 20))
                          /\ FLe(Gap(FMul(FromInt(10), FSub(new.y, old.y)),
                                     FSub(sample.y, old.y)), Dyadic(1, 20))
                          /\ FLe(Gap(sample.x, new.x), Gap(sample.x, old.x))
                          /\ FLe(Gap(sample.y, new.y), Gap(sample.y, old.y))
                          /\ FGe(Gap(sample.x, old.x), Dyadic(1, 20))
                               => FLt(Gap(sample.x, new.x), Gap(sample.x, old.x))
                          /\ FGe(Gap(sample.y, old.y), Dyadic(1, 20))
                               => FLt(Gap(sample.y, new.y), Gap(sample.y, old.y))
                          /\ (\A i \in FedInto(ix) :
                                particles[i].velocity = Vec2(FOne, FZero))
                               => sample = Vec2(FOne, FZero)
    ]_vars

(* Ten particles of velocity (1, 0) have been fed and committed twice into *)
(* a cell of flow (0.5, -0.25): the flow is (0.595, -0.2025) in f32, after *)
(* (0.55, -0.225).                                                         *)
C7_Witness ==
  /\ ran = << "apply_grid_updates", "apply_grid_updates" >>
  /\ Len(particles) = 10
  /\ all_cells[0].flow_v = Vec2(Dyadic(9982444, 24), Dyadic(-13589545, 26))
  /\ all_cells[1].flow_v = Vec2(Dyadic(1, 1), Dyadic(-1, 2))

(* C8, as stated: the flow a commit produces is strictly between the old   *)
(* flow and the sample, in each component.                                 *)
C8_StrictlyBetween ==
  [][ Commits
        => \A ix \in CellIxs :
             all_cells[ix].particle_count >= 1
               => LET old    == all_cells[ix].flow_v
                      new    == all_cells'[ix].flow_v
                      sample == Sample(all_cells[ix])
                  IN  /\ StrictlyBetween(old.x, new.x, sample.x)
                      /\ StrictlyBetween(old.y, new.y, sample.y)
    ]_vars

(* C8: the flow a commit produces is between the old flow and the sample,  *)
(* the ends included, so it never overshoots; it is the old flow when the  *)
(* old flow is the sample, and it is strictly between the two when they    *)
(* are at least 2^-20 apart (flows and samples of magnitude at most 1).    *)
C8_BetweenInclusive ==
  [][ Commits
        => \A ix \in CellIxs :
             all_cells[ix].particle_count >= 1
               => LET old    == all_cells[ix].flow_v
                      new    == all_cells'[ix].flow_v
                      sample == Sample(all_cells[ix])
                  IN  /\ Between(old.x, new.x, sample.x)
                      /\ Between(old.y, new.y, sample.y)
                      /\ old.x = sample.x => new.x = old.x
                      /\ old.y = sample.y => new.y = old.y
                      /\ FGe(Gap(sample.x, old.x), Dyadic(1, 20))
                           => StrictlyBetween(old.x, new.x, sample.x)
                      /\ FGe(Gap(sample.y, old.y), Dyadic(1, 20))
                           => StrictlyBetween(old.y, new.y, sample.y)
    ]_vars

(* Ten particles of velocity (1, 0) have been committed into a cell of     *)
(* flow (1 - 2^-23, 0): x is one f32 step from the sample and y is the     *)
(* sample, and the flow is what it was.                                    *)
C8_Witness ==
  /\ ran = << "apply_grid_updates" >>
  /\ Len(particles) = 10
  /\ all_cells[0].flow_v = Vec2(Dyadic(16777214, 24), FZero)
  /\ all_cells[0].particle_count = 0

(* C9, as stated: whatever the order in which the particles were fed, the  *)
(* accumulators of every cell are those of feeding them in the order of    *)
(* their index, and so is the flow of every cell after the commit.         *)
C9_OrderIndependent ==
  /\ [](all_cells = InIndexOrder(all_cells, particles, fed))
  /\ [][ Commits
           => all_cells' = apply_grid_updates(InIndexOrder(all_cells, particles, fed))
       ]_vars

(* C9: whatever the order in which the particles were fed, the             *)
(* particle_count of every cell is that of feeding them in the order of    *)
(* their index, and flow_updates and the flow_v after the commit are those *)
(* of that order up to the rounding of the f32 additions: within 2^-16 for *)
(* at most ten velocities of magnitude at most 1.                          *)
C9_OrderIndependentUpToRounding ==
  /\ [](\E inorder \in {InIndexOrder(all_cells, particles, fed)} :
          \/ all_cells = inorder
          \/ \A ix \in CellIxs :
               \/ all_cells[ix] = inorder[ix]
               \/ /\ all_cells[ix].particle_count = inorder[ix].particle_count
                  /\ all_cells[ix].flow_v = inorder[ix].flow_v
                  /\ NearVec(all_cells[ix].flow_updates, inorder[ix].flow_updates))
  /\ [][ Commits
           => \E committed \in {apply_grid_updates(InIndexOrder(all_cells, particles, fed))} :
                \/ all_cells' = committed
                \/ \A ix \in CellIxs :
                     \/ all_cells'[ix] = committed[ix]
                     \/ /\ NoPending(all_cells'[ix])
                        /\ NearVec(all_cells'[ix].flow_v, committed[ix].flow_v)
       ]_vars

(* The four particles of one cell have been fed in an order other than     *)
(* that of their index and committed into a flow of (1 - 2^-23, 0): the    *)
(* sum was 1.5 + 2^-23, not 1.5, and the y of the flow is one f32 step     *)
(* above that of the order of the index.                                   *)
C9_Witness ==
  /\ ran = << "apply_grid_updates" >>
  /\ Len(particles) = 4
  /\ all_cells[0].flow_v.y = Dyadic(10066331, 28)

(* C10: update_grid_flow changes no flow_v (and no particle), and          *)
(* update_particles_vectors changes no cell: every particle is blended     *)
(* with the flow its cell had before and has after the system, whatever    *)
(* the order of the particles.                                             *)
C10_FieldStableWhileUsed ==
  [][ /\ StepOf("update_grid_flow")
           => /\ \A ix \in CellIxs : all_cells'[ix].flow_v = all_cells[ix].flow_v
              /\ particles' = particles
      /\ StepOf("update_particles_vectors")
           => /\ all_cells' = all_cells
              /\ \A i \in DOMAIN particles :
                   particles'[i] =
                     update_velocity_from_cell(particles[i],
                                               all_cells'[get_cell_index(particles[i])])
    ]_vars

(* In a second frame the particles have read the field, two of them in the *)
(* same cell, which received both in update_grid_flow.                     *)
C10_Witness ==
  /\ frames >= 1
  /\ Len(ran) = 6
  /\ ran[6] = "update_particles_vectors"
  /\ get_cell_index(particles[1]) = get_cell_index(particles[2])
  /\ particles[1].velocity # particles[2].velocity

(* C11: while is_started is false no system runs and the world does not    *)
(* change, whatever the loop iterations read; only a press of the left     *)
(* mouse button ends the wait, and every other input (the quit, toggle and *)
(* direction keys) leaves is_started and the process as they are.          *)
C11_NotStartedFrozen ==
  [][ ~is_started
        => /\ world' = world
           /\ ran' = ran
           /\ frames' = frames
           /\ (is_started' \/ exited') => input'.mouse_left
           /\ ~input'.mouse_left => (is_started' = is_started /\ exited' = exited)
    ]_vars

(* The loop has waited through an iteration with the quit, toggle and up   *)
(* keys pressed and the mouse button not.                                  *)
C11_Witness ==
  /\ ~is_started
  /\ ~exited
  /\ input.keys.escape /\ input.keys.d /\ input.keys.up
  /\ ~input.mouse_left

(* C12: a terminal outcome raised by a system of the workload (the quit    *)
(* key in handle_key_presses is the only one any system raises) reaches    *)
(* the loop of main as a GameOver returned by run_default, the process     *)
(* still running, so that the loop ends the Running phase.                 *)
C12_GameOverSurfaced ==
  [][ (StepOf("handle_key_presses") /\ input'.keys.escape)
        => (~exited' /\ outcome' = "GameOver")
    ]_vars

(* C13: the end of a running session leaves the loop in phase Over, from   *)
(* where the begin-again click leads to a new session: a step that ends    *)
(* the Running phase keeps the process alive and waiting, so that Running  *)
(* is reachable again.                                                     *)
C13_BeginAgain ==
  [][ (is_started /\ (exited' \/ ~is_started'))
        => (~exited' /\ ~is_started' /\ exiting')
    ]_vars

(* The state of the simulation: everything in the world but the mode. *)
simulation == <<particles, all_cells, player, dragger>>

(* C15: the D key has no simulation effect.  In the step of                *)
(* handle_key_presses the mode flips exactly when D is pressed, a second   *)
(* press would restore it, the Boat is steered as it would be with the D   *)
(* key in the other state, and particles, cells and dragger are untouched; *)
(* the two systems that read the mode (render, draw_world_grid) change     *)
(* nothing, and no other step changes the mode.                            *)
C15_ModeToggleOnly ==
  [][ /\ StepOf("handle_key_presses")
           => /\ (game_mode' # game_mode) <=> input'.keys.d
              /\ game_mode' \in {"Default", "Debug"}
              /\ toggle_mode(game_mode', input'.keys) = game_mode
              /\ player' = steer(player, [input'.keys EXCEPT !.d = ~input'.keys.d])
              /\ <<particles, all_cells, dragger>>' = <<particles, all_cells, dragger>>
      /\ (StepOf("render") \/ StepOf("draw_world_grid"))
           => (simulation' = simulation /\ game_mode' = game_mode)
      /\ ~StepOf("handle_key_presses") => game_mode' = game_mode
    ]_vars

(* handle_key_presses has just run with D and Up held: the mode is Debug   *)
(* and the Boat has been thrust.                                           *)
C15_Witness ==
  /\ ran # <<>> /\ ran[Len(ran)] = "handle_key_presses"
  /\ input.keys.d /\ input.keys.up /\ input.keys.left
  /\ game_mode = "Debug"
  /\ player.vel # Vec2(FZero, FZero)

(* The pose and motion of a Boat: what Boat::render is said only to read. *)
pose(b) == <<b.loc, b.vel, b.health, b.t.direction>>

(* C16: Boat::render is a pure read of the pose.  Rendering the Boat of    *)
(* any reachable state leaves loc, vel, health and t.direction as they     *)
(* are; and the step of update_player, which ends with the call, leaves    *)
(* vel, health and t.direction as before the step and loc at the wrapped   *)
(* sum computed before the call.                                           *)
C16_RenderReadsPose ==
  /\ [](pose(boat_render(player)) = pose(player))
  /\ [][ StepOf("update_player")
           => /\ player'.vel = player.vel
              /\ player'.health = player.health
              /\ player'.t.direction = player.t.direction
              /\ player'.loc
                   = Point2(WrapAbove(WrapBelow(FAdd(player.loc.x, player.vel.x), FWIDTH), FWIDTH),
                            WrapAbove(WrapBelow(FAdd(player.loc.y, player.vel.y), FHEIGHT), FHEIGHT))
       ]_vars

(* update_player has just rendered a Boat that is moving and has been      *)
(* turned: the turtle has drawn (pen down) and stands away from the Boat.  *)
C16_Witness ==
  /\ ran # <<>> /\ ran[Len(ran)] = "update_player"
  /\ player.vel # Vec2(FZero, FZero)
  /\ player.t.direction # FZero
  /\ player.t.pen_down
  /\ player.t.loc # player.loc

(* The f32 sum, in storage order, of the velocities of those of the first  *)
(* i particles whose cell index (idx[k] for particle k) is ix.             *)
RECURSIVE SumOfVelocities(_, _, _, _)
SumOfVelocities(ps, idx, ix, i) ==
  IF i = 0 THEN Vec2(FZero, FZero)
  ELSE LET s == SumOfVelocities(ps, idx, ix, i - 1)
       IN  IF idx[i] = ix
           THEN Vec2(FAdd(s.x, ps[i].velocity.x), FAdd(s.y, ps[i].velocity.y))
           ELSE s

(* update_grid_flow has run in this frame and apply_grid_updates has not. *)
FedNotCommitted ==
  "update_grid_flow" \in Range(ran) /\ "apply_grid_updates" \notin Range(ran)

(* C17: each particle contributes once to one cell.  Between               *)
(* update_grid_flow and apply_grid_updates of a frame every cell's         *)
(* particle_count is the number of particles whose cell index is that      *)
(* cell, its flow_updates is the sum (f32, in storage order) of their      *)
(* velocities, and the counts of all cells add up to the number of         *)
(* particles.                                                              *)
C17_OneContributionEach ==
  FedNotCommitted
    => \E idx \in {[i \in DOMAIN particles |-> get_cell_index(particles[i])]} :
         /\ \A ix \in CellIxs :
              /\ all_cells[ix].particle_count = Cardinality({i \in DOMAIN idx : idx[i] = ix})
              /\ all_cells[ix].flow_updates = SumOfVelocities(particles, idx, ix, Len(particles))
         /\ TotalCount(all_cells) = Len(particles)

(* The grid has been fed in a second frame: some cell holds several        *)
(* particles, another holds one, and most hold none.                       *)
C17_Witness ==
  /\ FedNotCommitted
  /\ frames >= 1
  /\ \E ix \in CellIxs : all_cells[ix].particle_count >= 2
  /\ \E ix \in CellIxs : all_cells[ix].particle_count = 1
  /\ \E ix \in CellIxs : all_cells[ix].particle_count = 0

(* new is the f32 sum s shifted by a whole number of extents, up to the    *)
(* rounding of the shifts: within 2^-10.                                   *)
WrappedSum(new, s, extent) ==
  \E k \in -4 .. 4 :
    FLe(FAbs(FSub(FSub(new, s), FMul(FromInt(k), extent))), Dyadic(1, 10))

(* C18, as stated: the coordinate update_pos returns is (old + velocity)   *)
(* modulo the extent, on each axis.  Then it is in [0, extent), and it is  *)
(* not the old coordinate when the velocity is not 0 and is less than one  *)
(* extent.                                                                 *)
C18_WrapModulo ==
  Len(ran) = 5
    => /\ InDomain(at)
       /\ \A axis \in {"x", "y"} :
            LET velocity == particles[1].velocity[axis]
                extent   == IF axis = "x" THEN FWIDTH ELSE FHEIGHT
            IN  (velocity # FZero /\ FLt(FAbs(velocity), extent))
                  => at[axis] # player.loc[axis]

(* C18, amended: from a position in the domain and a velocity of up to     *)
(* three extents, every execution of a loop body changes the coordinate    *)
(* and the four loops end (here within MaxIterations bodies); the position *)
(* update_pos returns is in [0, WIDTH) x [0, HEIGHT) and is, on each axis, *)
(* the f32 sum old + velocity shifted by a whole number of extents, up to  *)
(* f32 rounding.  The statements compute what update_pos computes.         *)
C18_WrapUpToRounding ==
  /\ [][ frames' = frames + 1 => particles'[1].position # particles[1].position ]_vars
  /\ [](frames < MaxIterations)
  /\ [](Len(ran) = 5
          => /\ InDomain(at)
             /\ at = update_pos([particles[1] EXCEPT !.position = player.loc]).position
             /\ WrappedSum(at.x, FAdd(player.loc.x, particles[1].velocity.x), FWIDTH)
             /\ WrappedSum(at.y, FAdd(player.loc.y, particles[1].velocity.y), FHEIGHT))

(* update_pos has returned after three bodies of a loop of x and three of  *)
(* a loop of y: the particle went more than two extents out on both axes.  *)
C18_Witness ==
  /\ Len(ran) = 5
  /\ frames = 6
  /\ InDomain(at)
  /\ at # player.loc

(* C19: in every frame the input is read and applied first:                *)
(* handle_key_presses has run in the frame when move_particle and when     *)
(* update_player run, so the Boat advances by the velocity that the        *)
(* frame's turn and thrust give it.                                        *)
C19_InputFirst ==
  [][ (StepOf("move_particle") \/ StepOf("update_player"))
        => "handle_key_presses" \in Range(ran)
    ]_vars

(* C20: the number of particles is 8 in every reachable state. *)
C20_PopulationConstant == Len(particles) = NUM_PARTICLES

(* Three frames have been started, keys have steered and thrust the Boat,  *)
(* and every system of the third frame has run.                            *)
C20_Witness ==
  /\ frames >= 2
  /\ ran = Workload
  /\ player.vel # Vec2(FZero, FZero)
  /\ Len(particles) = NUM_PARTICLES

=============================================================================
